---- MODULE Spec2Model ----
(***************************************************************************)
(* A model of the QR Code encoder core of townmi/qrcode: GF(2^8)          *)
(* arithmetic, the Reed-Solomon encoder, and QRCode.encode with its        *)
(* terminator, padding, block interleaving and mask selection.             *)
(*                                                                         *)
(* The field arithmetic, reedsolomon.Encode, rsGeneratorPoly and QRCode    *)
(* are written from their source. The bit buffer, the polynomial           *)
(* arithmetic, the version descriptor and the symbol are packages whose    *)
(* source is not at hand; they are written from the design description     *)
(* (4.A, 4.C, 3 and 4.F, 4.H and 4.I). A symbol is kept as what determines *)
(* its modules (side, quiet zone, mask, data) with the count of modules    *)
(* the data leaves empty, and the penalty the symbol of each mask scores   *)
(* is an input. The version descriptors are rows of the version catalog.   *)
(***************************************************************************)
EXTENDS Integers, Sequences, FiniteSets

VARIABLES
    gfA, gfB, gfRes,              \* GF(2^8) calculator: operands and last result
    rsData, rsNumEC, rsRes,       \* reedsolomon.Encode: input block, EC count, result
    version,                      \* q.version: the chosen version's descriptor
    data,                         \* q.data: the payload bit stream
    symbol,                       \* q.symbol (NilSymbol until the first encode)
    mask,                         \* q.mask
    DisableBorder,                \* q.DisableBorder
    pen,                          \* the penalty score of the symbol built with each mask
    panicked,                     \* a log.Panic has ended the program
    out,                          \* what the last call returned
    data0,                        \* q.data as New left it
    first,                        \* what the first call returned, and q.mask after it
    calls,                        \* the number of calls made
    dirty                         \* an option was changed after the first call

gfVars == <<gfA, gfB, gfRes>>
rsVars == <<rsData, rsNumEC, rsRes>>
qrVars == <<version, data, symbol, mask, DisableBorder, pen, panicked, out,
            data0, first, calls, dirty>>
vars == <<gfVars, rsVars, qrVars>>

(***************************************************************************)
(* GF(2^8), modulo x^8 + x^4 + x^3 + x^2 + 1                               *)
(***************************************************************************)

gfZero == 0
gfOne == 1

\* gfElement is uint8
GFElements == 0..255

\* The hard-coded tables; TLA+ sequences are 1-based, so table[i] of the
\* source is table[i + 1] here (see Exp and Log).
gfExpTable ==
    << 1, 2, 4, 8, 16, 32, 64, 128, 29, 58,
       116, 232, 205, 135, 19, 38, 76, 152, 45, 90,
       180, 117, 234, 201, 143, 3, 6, 12, 24, 48,
       96, 192, 157, 39, 78, 156, 37, 74, 148, 53,
       106, 212, 181, 119, 238, 193, 159, 35, 70, 140,
       5, 10, 20, 40, 80, 160, 93, 186, 105, 210,
       185, 111, 222, 161, 95, 190, 97, 194, 153, 47,
       94, 188, 101, 202, 137, 15, 30, 60, 120, 240,
       253, 231, 211, 187, 107, 214, 177, 127, 254, 225,
       223, 163, 91, 182, 113, 226, 217, 175, 67, 134,
       17, 34, 68, 136, 13, 26, 52, 104, 208, 189,
       103, 206, 129, 31, 62, 124, 248, 237, 199, 147,
       59, 118, 236, 197, 151, 51, 102, 204, 133, 23,
       46, 92, 184, 109, 218, 169, 79, 158, 33, 66,
       132, 21, 42, 84, 168, 77, 154, 41, 82, 164,
       85, 170, 73, 146, 57, 114, 228, 213, 183, 115,
       230, 209, 191, 99, 198, 145, 63, 126, 252, 229,
       215, 179, 123, 246, 241, 255, 227, 219, 171, 75,
       150, 49, 98, 196, 149, 55, 110, 220, 165, 87,
       174, 65, 130, 25, 50, 100, 200, 141, 7, 14,
       28, 56, 112, 224, 221, 167, 83, 166, 81, 162,
       89, 178, 121, 242, 249, 239, 195, 155, 43, 86,
       172, 69, 138, 9, 18, 36, 72, 144, 61, 122,
       244, 245, 247, 243, 251, 235, 203, 139, 11, 22,
       44, 88, 176, 125, 250, 233, 207, 131, 27, 54,
       108, 216, 173, 71, 142, 1 >>

gfLogTable ==
    << -1, 0, 1, 25, 2, 50, 26, 198, 3, 223,
       51, 238, 27, 104, 199, 75, 4, 100, 224, 14,
       52, 141, 239, 129, 28, 193, 105, 248, 200, 8,
       76, 113, 5, 138, 101, 47, 225, 36, 15, 33,
       53, 147, 142, 218, 240, 18, 130, 69, 29, 181,
       194, 125, 106, 39, 249, 185, 201, 154, 9, 120,
       77, 228, 114, 166, 6, 191, 139, 98, 102, 221,
       48, 253, 226, 152, 37, 179, 16, 145, 34, 136,
       54, 208, 148, 206, 143, 150, 219, 189, 241, 210,
       19, 92, 131, 56, 70, 64, 30, 66, 182, 163,
       195, 72, 126, 110, 107, 58, 40, 84, 250, 133,
       186, 61, 202, 94, 155, 159, 10, 21, 121, 43,
       78, 212, 229, 172, 115, 243, 167, 87, 7, 112,
       192, 247, 140, 128, 99, 13, 103, 74, 222, 237,
       49, 197, 254, 24, 227, 165, 153, 119, 38, 184,
       180, 124, 17, 68, 146, 217, 35, 32, 137, 46,
       55, 63, 209, 91, 149, 188, 207, 205, 144, 135,
       151, 178, 220, 252, 190, 97, 242, 86, 211, 171,
       20, 42, 93, 158, 132, 60, 57, 83, 71, 109,
       65, 162, 31, 45, 67, 216, 183, 123, 164, 118,
       196, 23, 73, 236, 127, 12, 111, 246, 108, 161,
       59, 82, 41, 157, 85, 170, 251, 96, 134, 177,
       187, 204, 62, 90, 203, 89, 95, 176, 156, 169,
       160, 81, 11, 245, 22, 235, 122, 117, 44, 215,
       79, 174, 213, 233, 230, 231, 173, 232, 116, 214,
       244, 234, 168, 80, 88, 175 >>

Exp(i) == gfExpTable[i + 1]
Log(v) == gfLogTable[v + 1]

\* a ^ b on uint8 operands
RECURSIVE Xor(_, _)
Xor(a, b) ==
    IF a = 0 THEN b
    ELSE IF b = 0 THEN a
    ELSE (((a % 2) + (b % 2)) % 2) + 2 * Xor(a \div 2, b \div 2)

\* The value a function returns, or the panic it ends in.
Ok(v) == [panic |-> FALSE, val |-> v]
Panic == [panic |-> TRUE, val |-> 0]

\* XorTable[a][b]: a ^ b for every pair of uint8 operands
XorTable == [a \in GFElements |-> [b \in GFElements |-> Xor(a, b)]]

gfAdd(a, b) == XorTable[a][b]
gfSub(a, b) == XorTable[a][b]

\* Variant of gfMultiply: the log of a is added to itself.
gfMultiplyLogTwice(a, b) ==
    IF a = gfZero \/ b = gfZero THEN gfZero
    ELSE Exp((Log(a) + Log(a)) % 255)

\* Variant of gfMultiply: the exponents are added modulo 256.
gfMultiplyMod256(a, b) ==
    IF a = gfZero \/ b = gfZero THEN gfZero
    ELSE Exp((Log(a) + Log(b)) % 256)

gfMultiply(a, b) ==
    IF a = gfZero \/ b = gfZero THEN gfZero
    ELSE Exp((Log(a) + Log(b)) % 255)

\* Variant of gfInverse: the exponent is taken from 254.
gfInverseOffByOne(a) ==
    IF a = gfZero THEN Panic
    ELSE Ok(Exp(254 - Log(a)))

gfInverse(a) ==
    IF a = gfZero THEN Panic
    ELSE Ok(Exp(255 - Log(a)))

\* Variant of gfDivide: the divisor is tested before the dividend.
gfDivideZeroCheckFirst(a, b) ==
    IF b = gfZero THEN Panic
    ELSE IF a = gfZero THEN Ok(gfZero)
    ELSE Ok(gfMultiply(a, gfInverse(b).val))

gfDivide(a, b) ==
    IF a = gfZero THEN Ok(gfZero)
    ELSE IF b = gfZero THEN Panic
    ELSE Ok(gfMultiply(a, gfInverse(b).val))

(***************************************************************************)
(* The field operations applied to operands drawn from all of uint8        *)
(***************************************************************************)

NoResult == [op |-> "none", panic |-> FALSE, val |-> 0]

Called(op, r) == [op |-> op, panic |-> r.panic, val |-> r.val]

InitGFIdle ==
    /\ gfA = 0
    /\ gfB = 0
    /\ gfRes = NoResult

InitGF ==
    /\ gfA \in GFElements
    /\ gfB \in GFElements
    /\ gfRes = NoResult

CallMultiply ==
    /\ gfRes' = Called("mul", Ok(gfMultiply(gfA, gfB)))
    /\ UNCHANGED <<gfA, gfB, rsVars, qrVars>>

CallDivide ==
    /\ gfRes' = Called("div", gfDivide(gfA, gfB))
    /\ UNCHANGED <<gfA, gfB, rsVars, qrVars>>

CallInverse ==
    /\ gfRes' = Called("inv", gfInverse(gfA))
    /\ UNCHANGED <<gfA, gfB, rsVars, qrVars>>

(***************************************************************************)
(* Bit buffer (bitset.Bitset): a sequence of bits, 1 for true              *)
(***************************************************************************)

Repeat(n, v) == [i \in 1..n |-> v]

\* b.Append(other)
BitsetAppend(bits, other) == bits \o other

\* b.AppendNumBools(num, value)
AppendNumBools(bits, num, value) == bits \o Repeat(num, value)

\* The 8 bits of a byte, most significant first.
ByteBits(byte) == [i \in 1..8 |-> (byte \div (2 ^ (8 - i))) % 2]

\* b.AppendBytes(data)
AppendBytes(bits, bytes) ==
    bits \o [i \in 1..(8 * Len(bytes)) |->
                ByteBits(bytes[((i - 1) \div 8) + 1])[((i - 1) % 8) + 1]]

\* b.Substr(start, end): the bits [start, end), 0-based
Substr(bits, start, end) == SubSeq(bits, start + 1, end)

BitAt(bits, i) == IF i < Len(bits) THEN bits[i + 1] ELSE 0

\* b.ByteAt(index): the byte starting at the 0-based bit index, the bits past
\* the end read as zero.
ByteAt(bits, index) ==
    BitAt(bits, index) * 128 + BitAt(bits, index + 1) * 64
    + BitAt(bits, index + 2) * 32 + BitAt(bits, index + 3) * 16
    + BitAt(bits, index + 4) * 8 + BitAt(bits, index + 5) * 4
    + BitAt(bits, index + 6) * 2 + BitAt(bits, index + 7)

(***************************************************************************)
(* Polynomials over GF(2^8) (gfPoly): term[i + 1] is the coefficient of    *)
(* x^i                                                                     *)
(***************************************************************************)

\* The first byte of the data is the coefficient of the highest degree.
newGFPolyFromData(block) ==
    LET numTotalBytes == (Len(block) + 7) \div 8
    IN  [i \in 1..numTotalBytes |-> ByteAt(block, 8 * (numTotalBytes - i))]

\* term * x^degree
newGFPolyMonomial(term, degree) ==
    IF term = gfZero THEN <<>>
    ELSE [i \in 1..(degree + 1) |-> IF i = degree + 1 THEN term ELSE gfZero]

\* The coefficient of x^n of a * b: the sum of a_i * b_j over the terms of a
\* and b with i + j = n, summed from i upwards.
RECURSIVE ConvolutionTerm(_, _, _, _)
ConvolutionTerm(a, b, n, i) ==
    IF i > n \/ i >= Len(a) THEN gfZero
    ELSE gfAdd(gfMultiply(a[i + 1], b[n - i + 1]), ConvolutionTerm(a, b, n, i + 1))

\* Schoolbook convolution; the result has len(a) + len(b) - 1 terms. The
\* first term of a that meets a term of b in x^n is a_(n - deg(b)).
gfPolyMultiply(a, b) ==
    IF a = <<>> \/ b = <<>> THEN <<>>
    ELSE [n \in 1..(Len(a) + Len(b) - 1) |->
            ConvolutionTerm(a, b, n - 1, IF n > Len(b) THEN n - Len(b) ELSE 0)]

\* One step of the long division: the residue's coefficient at term `top`
\* times b, aligned under that term, is added to the residue.
DivisionStep(residue, b, top) ==
    LET coefficient == residue[top]
        shift == top - Len(b)
    IN  [i \in 1..Len(residue) |->
            IF i > shift /\ i <= top
            THEN gfAdd(residue[i], gfMultiply(coefficient, b[i - shift]))
            ELSE residue[i]]

\* The steps from term `top` of the residue down to the degree of b.
RECURSIVE LongDivision(_, _, _)
LongDivision(residue, b, top) ==
    IF top > Len(residue) \/ top < Len(b) THEN residue
    ELSE LongDivision(DivisionStep(residue, b, top), b, top - 1)

\* The remainder of a divided by b: deg(a) - deg(b) + 1 steps, from the
\* highest term of a down; what is left has at most deg(b) terms.
gfPolyRemainder(a, b) ==
    LET residue == LongDivision(a, b, Len(a))
        n == IF Len(a) < Len(b) - 1 THEN Len(a) ELSE Len(b) - 1
    IN  SubSeq(residue, 1, n)

\* e.data(numTerms): numTerms coefficients as bytes in descending degree,
\* zero where the polynomial has no such term.
PolyData(e, numTerms) ==
    [i \in 1..numTerms |->
        IF numTerms - i < Len(e) THEN e[numTerms - i + 1] ELSE gfZero]

(***************************************************************************)
(* Reed-Solomon encoder                                                    *)
(***************************************************************************)

\* Variant of rsGeneratorPoly: the roots are alpha^1 .. alpha^degree.
RECURSIVE GeneratorLoopShifted(_, _, _)
GeneratorLoopShifted(generator, i, degree) ==
    IF i >= degree THEN generator
    ELSE GeneratorLoopShifted(gfPolyMultiply(generator, <<Exp(i + 1), 1>>), i + 1, degree)

rsGeneratorPolyShifted(degree) ==
    IF degree < 2 THEN Panic
    ELSE Ok(GeneratorLoopShifted(<<1>>, 0, degree))

\* for i := 0; i < degree; i++ { generator = generator * (x + exp[i]) }
RECURSIVE GeneratorLoop(_, _, _)
GeneratorLoop(generator, i, degree) ==
    IF i >= degree THEN generator
    ELSE GeneratorLoop(gfPolyMultiply(generator, <<Exp(i), 1>>), i + 1, degree)

rsGeneratorPoly(degree) ==
    IF degree < 2 THEN Panic
    ELSE Ok(GeneratorLoop(<<1>>, 0, degree))

Encode(block, numECBytes) ==
    LET ecpoly == gfPolyMultiply(newGFPolyFromData(block),
                                 newGFPolyMonomial(gfOne, numECBytes))
        generator == rsGeneratorPoly(numECBytes)
    IN  IF generator.panic THEN Panic
        ELSE LET remainder == gfPolyRemainder(ecpoly, generator.val)
             IN  Ok(AppendBytes(block, PolyData(remainder, numECBytes)))

(***************************************************************************)
(* reedsolomon.Encode applied to blocks of sample bytes                    *)
(***************************************************************************)

MaxDataBytes == 3
MaxECBytes == 7

ByteSamples == {0, 1, 87, 142, 255}

RECURSIVE BytesUpTo(_)
BytesUpTo(k) ==
    IF k = 0 THEN {<<>>}
    ELSE LET shorter == BytesUpTo(k - 1)
         IN  shorter \cup
             {s \o <<b>> : s \in {t \in shorter : Len(t) = k - 1}, b \in ByteSamples}

NoRS == [done |-> FALSE, panic |-> FALSE, val |-> <<>>]

InitRSIdle ==
    /\ rsData = <<>>
    /\ rsNumEC = 0
    /\ rsRes = NoRS

InitRS ==
    /\ rsData \in {AppendBytes(<<>>, bytes) : bytes \in BytesUpTo(MaxDataBytes)}
    /\ rsNumEC \in 0..MaxECBytes
    /\ rsRes = NoRS

CallEncode ==
    /\ rsRes' = [done |-> TRUE,
                 panic |-> Encode(rsData, rsNumEC).panic,
                 val |-> Encode(rsData, rsNumEC).val]
    /\ UNCHANGED <<rsData, rsNumEC, gfVars, qrVars>>

(***************************************************************************)
(* Version descriptor (qrCodeVersion): version number, one or two block    *)
(* groups {numBlocks, numCodewords, numDataCodewords}, remainder bits      *)
(***************************************************************************)

\* v.numBlocks()
RECURSIVE GroupBlocks(_)
GroupBlocks(groups) ==
    IF groups = <<>> THEN 0
    ELSE Head(groups).numBlocks + GroupBlocks(Tail(groups))

numBlocks(v) == GroupBlocks(v.block)

\* v.numDataBits(): eight bits for every data codeword of every block
RECURSIVE GroupDataBits(_)
GroupDataBits(groups) ==
    IF groups = <<>> THEN 0
    ELSE Head(groups).numBlocks * Head(groups).numDataCodewords * 8
         + GroupDataBits(Tail(groups))

numDataBits(v) == GroupDataBits(v.block)

\* v.numTerminatorBitsRequired(numDataBits): up to four, as many as fit
numTerminatorBitsRequired(v, len) ==
    LET numFreeBits == numDataBits(v) - len
    IN  IF numFreeBits >= 4 THEN 4 ELSE numFreeBits

\* v.numBitsToPadToCodeword(numDataBits)
numBitsToPadToCodeword(v, len) ==
    IF len = numDataBits(v) THEN 0 ELSE (8 - (len % 8)) % 8

\* v.symbolSize(): 17 + 4 * version modules a side
symbolSize(v) == 17 + 4 * v.version

\* v.quietZoneSize()
quietZoneSize == 4

(***************************************************************************)
(* Symbol: the module matrix built for one mask. The matrix is kept as     *)
(* what determines it: its side, its quiet zone, the mask and the data,    *)
(* with the number of its modules left empty.                              *)
(***************************************************************************)

NilSymbol ==
    [nil |-> TRUE, size |-> 0, quietZoneSize |-> 0, mask |-> 0, data |-> <<>>,
     numEmpty |-> 0]

\* The version numbers whose symbols are laid out here.
LayoutVersions == 1..6

\* alignment_centers of version n: none for version 1, rows and columns 6 and
\* side - 7 for versions 2 to 6
alignmentCenters(n) == IF n = 1 THEN {} ELSE {6, 4 * n + 10}

\* A 7x7 finder pattern with its separator covers the cell.
InFinder(size, r, c) ==
    \/ r <= 7 /\ c <= 7
    \/ r <= 7 /\ c >= size - 8
    \/ r >= size - 8 /\ c <= 7

\* The 5x5 alignment pattern centred on (ar, ac) overlaps a finder pattern.
OverlapsFinder(size, ar, ac) ==
    \/ ar - 2 <= 6 /\ ac - 2 <= 6
    \/ ar - 2 <= 6 /\ ac + 2 >= size - 7
    \/ ar + 2 >= size - 7 /\ ac - 2 <= 6

\* The cell is one the function patterns of version n reserve (4.H, 1 to 6):
\* finder patterns and separators, timing patterns, alignment patterns, the
\* dark module, format information, version information.
Reserved(n, r, c) ==
    LET size == 17 + 4 * n
    IN  \/ InFinder(size, r, c)
        \/ r = 6 \/ c = 6
        \/ \E ar \in alignmentCenters(n), ac \in alignmentCenters(n) :
            /\ ~OverlapsFinder(size, ar, ac)
            /\ r >= ar - 2 /\ r <= ar + 2 /\ c >= ac - 2 /\ c <= ac + 2
        \/ r = 4 * n + 9 /\ c = 8
        \/ r = 8 /\ (c <= 8 \/ c >= size - 8)
        \/ c = 8 /\ (r <= 8 \/ r >= size - 7)
        \/ n >= 7 /\ r <= 5 /\ c >= size - 11 /\ c <= size - 9
        \/ n >= 7 /\ c <= 5 /\ r >= size - 11 /\ r <= size - 9

\* numDataModules[n]: the modules of a version n symbol the zig-zag track
\* visits, those no function pattern reserves
numDataModules ==
    [n \in LayoutVersions |->
        Cardinality({cell \in (0..(16 + 4 * n)) \X (0..(16 + 4 * n)) :
                        ~Reserved(n, cell[1], cell[2])})]

\* buildRegularSymbol(version, mask, data, includeQuietZone): the symbol, or
\* the error of a payload longer than the track. The modules the payload
\* leaves unvisited stay empty.
buildRegularSymbol(v, m, encoded, includeQuietZone) ==
    LET quiet == IF includeQuietZone THEN quietZoneSize ELSE 0
        track == numDataModules[v.version]
    IN  [err |-> Len(encoded) > track,
         s |-> [nil |-> FALSE, size |-> symbolSize(v) + 2 * quiet,
                quietZoneSize |-> quiet, mask |-> m, data |-> encoded,
                numEmpty |-> IF Len(encoded) > track THEN 0
                             ELSE track - Len(encoded)]]

\* s.numEmptyModules()
numEmptyModules(s) == s.numEmpty

\* s.penaltyScore(): the four-rule score of the masked matrix, which the
\* quiet zone does not enter
penaltyScore(s, penalties) == penalties[s.mask]

\* s.bitmap()
bitmap(s) == [size |-> s.size, quietZoneSize |-> s.quietZoneSize,
              mask |-> s.mask, data |-> s.data]

(***************************************************************************)
(* QRCode                                                                  *)
(***************************************************************************)

numMasks == 8

\* Variant of addTerminatorBits: four bits whatever the count asked for.
addTerminatorBitsAlwaysFour(bits, numTerminatorBits) ==
    AppendNumBools(bits, 4, 0)

addTerminatorBits(bits, numTerminatorBits) ==
    AppendNumBools(bits, numTerminatorBits, 0)

\* Variant of PadCodeword: the two pad codewords in the other order.
PadCodewordSwapped(i) ==
    IF i = 0 THEN <<0, 0, 0, 1, 0, 0, 0, 1>> ELSE <<1, 1, 1, 0, 1, 1, 0, 0>>

\* padding[i]: the pad codewords 0b11101100 and 0b00010001
PadCodeword(i) ==
    IF i = 0 THEN <<1, 1, 1, 0, 1, 1, 0, 0>> ELSE <<0, 0, 0, 1, 0, 0, 0, 1>>

\* for numDataBits-q.data.Len() >= 8 { q.data.Append(padding[i]); i = 1 - i }
RECURSIVE PadLoop(_, _, _)
PadLoop(bits, i, n) ==
    IF n - Len(bits) >= 8
    THEN PadLoop(BitsetAppend(bits, PadCodeword(i)), 1 - i, n)
    ELSE bits

\* q.addPadding(): the padded data, or the data as the panic leaves it
addPadding(v, bits) ==
    LET n == numDataBits(v)
    IN  IF Len(bits) = n THEN Ok(bits)
        ELSE LET toCodeword == AppendNumBools(bits, numBitsToPadToCodeword(v, Len(bits)), 0)
                 padded == PadLoop(toCodeword, 0, n)
             IN  IF Len(padded) # n THEN [panic |-> TRUE, val |-> padded]
                 ELSE Ok(padded)

\* The layout of every block, in block order: the groups walked in order,
\* each giving numBlocks entries.
RECURSIVE BlockLayouts(_)
BlockLayouts(groups) ==
    IF groups = <<>> THEN <<>>
    ELSE [j \in 1..Head(groups).numBlocks |-> Head(groups)] \o BlockLayouts(Tail(groups))

\* Split into blocks: block blockID takes the bits [start, end) that follow
\* the previous block's, and is Reed-Solomon encoded (every row of the
\* catalog has at least two error codewords a block, so Encode does not
\* panic).
RECURSIVE SplitBlocks(_, _, _)
SplitBlocks(bits, layouts, end) ==
    IF layouts = <<>> THEN <<>>
    ELSE LET b == Head(layouts)
             start == end
             newEnd == start + b.numDataCodewords * 8
             numErrorCodewords == b.numCodewords - b.numDataCodewords
         IN  <<[data |-> Encode(Substr(bits, start, newEnd), numErrorCodewords).val,
                ecStartOffset |-> newEnd - start]>>
             \o SplitBlocks(bits, Tail(layouts), newEnd)

\* One pass over the blocks at data bit offset i: each block that still has
\* a data byte there appends it.
RECURSIVE DataColumn(_, _, _)
DataColumn(block, j, i) ==
    IF j > Len(block) THEN <<>>
    ELSE (IF i >= block[j].ecStartOffset THEN <<>>
          ELSE Substr(block[j].data, i, i + 8))
         \o DataColumn(block, j + 1, i)

\* Variant of CombineData: the data of each block in turn, not interleaved.
RECURSIVE CombineDataBlockMajor(_, _, _)
CombineDataBlockMajor(result, block, i) ==
    IF block = <<>> THEN result
    ELSE CombineDataBlockMajor(
            BitsetAppend(result, Substr(Head(block).data, 0, Head(block).ecStartOffset)),
            Tail(block), i)

\* Combine data blocks: passes at i = 0, 8, ... until one appends nothing.
RECURSIVE CombineData(_, _, _)
CombineData(result, block, i) ==
    LET appended == BitsetAppend(result, DataColumn(block, 1, i))
    IN  IF Len(appended) = Len(result) THEN result
        ELSE CombineData(appended, block, i + 8)

\* One pass over the blocks at error correction bit offset i.
RECURSIVE ECColumn(_, _, _)
ECColumn(block, j, i) ==
    IF j > Len(block) THEN <<>>
    ELSE LET offset == i + block[j].ecStartOffset
         IN  (IF offset >= Len(block[j].data) THEN <<>>
              ELSE Substr(block[j].data, offset, offset + 8))
             \o ECColumn(block, j + 1, i)

\* Combine error correction blocks.
RECURSIVE CombineEC(_, _, _)
CombineEC(result, block, i) ==
    LET appended == BitsetAppend(result, ECColumn(block, 1, i))
    IN  IF Len(appended) = Len(result) THEN result
        ELSE CombineEC(appended, block, i + 8)

\* q.encodeBlocks()
encodeBlocks(v, bits) ==
    LET block == SplitBlocks(bits, BlockLayouts(v.block), 0)
        combined == CombineEC(CombineData(<<>>, block, 0), block, 0)
    IN  AppendNumBools(combined, v.numRemainderBits, 0)

\* Variant of MaskStep: a mask of equal penalty replaces the one held.
MaskStepLastWins(sel, s, p) ==
    IF sel.symbol.nil \/ p <= sel.penalty
    THEN [symbol |-> s, mask |-> s.mask, penalty |-> p]
    ELSE sel

\* if q.symbol == nil || p < penalty { q.symbol = s; q.mask = mask; penalty = p }
MaskStep(sel, s, p) ==
    IF sel.symbol.nil \/ p < sel.penalty
    THEN [symbol |-> s, mask |-> s.mask, penalty |-> p]
    ELSE sel

\* for mask := 0; mask < numMasks; mask++ { ... }
\* The loop over the masks, from mask m on: q.symbol, q.mask and penalty as
\* it leaves them, and whether log.Panic ended it (buildRegularSymbol failed,
\* or the symbol has empty modules).
RECURSIVE MaskLoop(_, _, _, _, _, _)
MaskLoop(sel, m, v, encoded, border, penalties) ==
    IF m >= numMasks THEN [panic |-> FALSE, sel |-> sel]
    ELSE LET built == buildRegularSymbol(v, m, encoded, border)
         IN  IF built.err THEN [panic |-> TRUE, sel |-> sel]
             ELSE IF numEmptyModules(built.s) # 0 THEN [panic |-> TRUE, sel |-> sel]
             ELSE MaskLoop(MaskStep(sel, built.s, penaltyScore(built.s, penalties)),
                           m + 1, v, encoded, border, penalties)

\* q.encode(): the fields of q it leaves, and whether it panicked
encode(v, bits, sym, msk, disableBorder, penalties) ==
    LET numTerminatorBits == numTerminatorBitsRequired(v, Len(bits))
        padded == addPadding(v, addTerminatorBits(bits, numTerminatorBits))
    IN  IF padded.panic
        THEN [panic |-> TRUE, data |-> padded.val, symbol |-> sym, mask |-> msk]
        ELSE LET encoded == encodeBlocks(v, padded.val)
                 loop == MaskLoop([symbol |-> sym, mask |-> msk, penalty |-> 0], 0,
                                  v, encoded, ~disableBorder, penalties)
             IN  [panic |-> loop.panic, data |-> padded.val,
                  symbol |-> loop.sel.symbol, mask |-> loop.sel.mask]

(***************************************************************************)
(* The calls on one QRCode                                                 *)
(***************************************************************************)

NoOut == [call |-> "none", bitmap |-> bitmap(NilSymbol), size |-> 0,
          disableBorder |-> FALSE]

NoFirst == [set |-> FALSE, bitmap |-> bitmap(NilSymbol), mask |-> 0]

\* q.encode() on the QRCode of the state.
Encoded == encode(version, data, symbol, mask, DisableBorder, pen)

\* The state a call leaves: q as encode leaves it, and what the call returns
\* (nothing when encode panics).
Returns(r, call, size) ==
    /\ data' = r.data
    /\ symbol' = r.symbol
    /\ mask' = r.mask
    /\ panicked' = r.panic
    /\ out' = IF r.panic THEN out
              ELSE [call |-> call, bitmap |-> bitmap(r.symbol), size |-> size,
                    disableBorder |-> DisableBorder]
    /\ first' = IF first.set \/ r.panic THEN first
                ELSE [set |-> TRUE, bitmap |-> bitmap(r.symbol), mask |-> r.mask]
    /\ calls' = IF r.panic THEN calls ELSE IF calls = 0 THEN 1 ELSE 2
    /\ UNCHANGED <<version, DisableBorder, pen, data0, dirty, gfVars, rsVars>>

\* A call can be made on q: no panic has ended the program, and q is not the
\* QRCode of Encode, which no caller holds.
Live == ~panicked /\ out.call # "Encode"

\* q.DisableBorder = b
SetDisableBorder ==
    /\ Live
    /\ \E b \in BOOLEAN :
        /\ DisableBorder' = b
        /\ dirty' = (dirty \/ (first.set /\ b # DisableBorder))
    /\ UNCHANGED <<version, data, symbol, mask, pen, panicked, out, data0, first, calls,
                   gfVars, rsVars>>

\* q.Bitmap()
Bitmap ==
    /\ Live
    /\ \E r \in {Encoded} :
           Returns(r, "Bitmap", r.symbol.size)

\* The pixels a side of the image q.Image(size) draws.
ImageSize(size, realSize) ==
    LET scaled == IF size < 0 THEN size * (-1) * realSize ELSE size
    IN  IF scaled < realSize THEN realSize ELSE scaled

ImageSizes == {-2, 30}

\* q.Image(size): the bitmap it rasterises and the side of the image
Image ==
    /\ Live
    /\ \E r \in {Encoded} :
        \E size \in ImageSizes :
            Returns(r, "Image", ImageSize(size, r.symbol.size))

\* q.PNG(size): q.Image(size), then the image encoded as a PNG, which keeps
\* its side and its pixels
PNG ==
    /\ Live
    /\ \E r \in {Encoded} :
        \E size \in ImageSizes :
            Returns(r, "PNG", ImageSize(size, r.symbol.size))

\* Encode(content, level, size): New, then PNG on the QRCode New returned
qrcodeEncode ==
    /\ Live
    /\ calls = 0 /\ symbol.nil /\ ~DisableBorder
    /\ \E r \in {Encoded} :
        \E size \in ImageSizes :
            Returns(r, "Encode", ImageSize(size, r.symbol.size))

\* q.ToString(inverseColor): the bitmap it renders and the number of lines
ToString ==
    /\ Live
    /\ \E r \in {Encoded} :
           Returns(r, "ToString", r.symbol.size)

\* q.ToSmallString(inverseColor): two rows of the bitmap to a line
ToSmallString ==
    /\ Live
    /\ \E r \in {Encoded} :
           Returns(r, "ToSmallString", (r.symbol.size + 1) \div 2)

(***************************************************************************)
(* The QRCodes New can leave: a version descriptor, and encoded data that  *)
(* fits it                                                                 *)
(***************************************************************************)

MaxVersion == 5
MaxPenalty == 2
NumPatterns == 2

Masks == 0..(numMasks - 1)

Group(nb, k, ec) == [numBlocks |-> nb, numCodewords |-> k + ec, numDataCodewords |-> k]

Version(n, level, layout, rem) ==
    [version |-> n, level |-> level, block |-> layout, numRemainderBits |-> rem]

\* The rows of the version catalog for versions 1 to 6: for each version and
\* recovery level, the blocks (how many, data codewords, error correction
\* codewords) and the remainder bits.
Catalog ==
    {Version(1, "L", <<Group(1, 19, 7)>>, 0),
     Version(1, "M", <<Group(1, 16, 10)>>, 0),
     Version(1, "Q", <<Group(1, 13, 13)>>, 0),
     Version(1, "H", <<Group(1, 9, 17)>>, 0),
     Version(2, "L", <<Group(1, 34, 10)>>, 7),
     Version(2, "M", <<Group(1, 28, 16)>>, 7),
     Version(2, "Q", <<Group(1, 22, 22)>>, 7),
     Version(2, "H", <<Group(1, 16, 28)>>, 7),
     Version(3, "L", <<Group(1, 55, 15)>>, 7),
     Version(3, "M", <<Group(1, 44, 26)>>, 7),
     Version(3, "Q", <<Group(2, 17, 18)>>, 7),
     Version(3, "H", <<Group(2, 13, 22)>>, 7),
     Version(4, "L", <<Group(1, 80, 20)>>, 7),
     Version(4, "M", <<Group(2, 32, 18)>>, 7),
     Version(4, "Q", <<Group(2, 24, 26)>>, 7),
     Version(4, "H", <<Group(4, 9, 16)>>, 7),
     Version(5, "L", <<Group(1, 108, 26)>>, 7),
     Version(5, "M", <<Group(2, 43, 24)>>, 7),
     Version(5, "Q", <<Group(2, 15, 18), Group(2, 16, 18)>>, 7),
     Version(5, "H", <<Group(2, 11, 22), Group(2, 12, 22)>>, 7),
     Version(6, "L", <<Group(2, 68, 18)>>, 7),
     Version(6, "M", <<Group(4, 27, 16)>>, 7),
     Version(6, "Q", <<Group(4, 19, 24)>>, 7),
     Version(6, "H", <<Group(4, 15, 28)>>, 7)}

\* The rows chooseQRCodeVersion picks from here.
CatalogRows == {v \in Catalog : v.version <= MaxVersion}

Row(n, level) == CHOOSE v \in Catalog : v.version = n /\ v.level = level

\* Sample payload: byte j of pattern p, and the first len bits of its bytes.
PatternByte(p, j) == (p * 37 * (j + 1) + 11 * j) % 256

PatternBits(p, len) ==
    [i \in 1..len |-> ByteBits(PatternByte(p, (i - 1) \div 8))[((i - 1) % 8) + 1]]

\* lengths[v]: the lengths of the data New may leave with version v
InitQR(versions, lengths, patterns, penalties) ==
    /\ version \in versions
    /\ pen \in penalties
    /\ data0 \in {PatternBits(p, len) : p \in patterns, len \in lengths[version]}
    /\ data = data0
    /\ symbol = NilSymbol
    /\ mask = 0
    /\ DisableBorder = FALSE
    /\ panicked = FALSE
    /\ out = NoOut
    /\ first = NoFirst
    /\ calls = 0
    /\ dirty = FALSE

InitQRIdle ==
    /\ version = Row(1, "L")
    /\ pen = [m \in Masks |-> 1]
    /\ data0 = <<>>
    /\ data = data0
    /\ symbol = NilSymbol
    /\ mask = 0
    /\ DisableBorder = FALSE
    /\ panicked = FALSE
    /\ out = NoOut
    /\ first = NoFirst
    /\ calls = 0
    /\ dirty = FALSE

AnyLength(versions) == [v \in versions |-> 0..numDataBits(v)]
FullLength(versions) == [v \in versions |-> {numDataBits(v)}]
SomeLengths(versions) == [v \in versions |-> {0, numDataBits(v)}]

AllPatterns == 1..NumPatterns
UnitPenalties == {[m \in Masks |-> 1]}

AllPenalties == [Masks -> 1..MaxPenalty]

\* One mask scoring lowest, the others alike.
OneBestPenalties == {[m \in Masks |-> IF m = best THEN 1 ELSE MaxPenalty] : best \in Masks}

(***************************************************************************)
(* Specifications                                                          *)
(***************************************************************************)

\* The field operations on every pair of operands.
InitSpecGF == InitGF /\ InitRSIdle /\ InitQRIdle
NextGF == CallMultiply \/ CallDivide \/ CallInverse
SpecGF == InitSpecGF /\ [][NextGF]_vars

\* reedsolomon.Encode on blocks of sample bytes.
InitSpecRS == InitGFIdle /\ InitRS /\ InitQRIdle
NextRS == CallEncode
SpecRS == InitSpecRS /\ [][NextRS]_vars

\* Any sequence of calls and option changes on one QRCode of version 1.
CallVersions == {Row(1, "H")}
InitSpec ==
    InitGFIdle /\ InitRSIdle
    /\ InitQR(CallVersions, SomeLengths(CallVersions), {1}, OneBestPenalties)
Next ==
    SetDisableBorder \/ Bitmap \/ Image \/ PNG \/ qrcodeEncode \/ ToString \/ ToSmallString
Spec == InitSpec /\ [][Next]_vars

\* The encode of a fresh QRCode, for every penalty the eight symbols can score.
MaskVersions == {Row(1, "H")}
InitMask ==
    InitGFIdle /\ InitRSIdle
    /\ InitQR(MaskVersions, FullLength(MaskVersions), {1}, AllPenalties)
NextEncode == Bitmap
SpecMask == InitMask /\ [][NextEncode]_vars

\* The encode of a fresh QRCode, for every length of its data.
PadVersions == {Row(1, "Q"), Row(1, "H")}
InitPad ==
    InitGFIdle /\ InitRSIdle
    /\ InitQR(PadVersions, AnyLength(PadVersions), AllPatterns, UnitPenalties)
SpecPad == InitPad /\ [][NextEncode]_vars

\* The encode of a fresh QRCode, for every block layout of the catalog.
InitBlocks ==
    InitGFIdle /\ InitRSIdle
    /\ InitQR(CatalogRows, FullLength(CatalogRows), AllPatterns, UnitPenalties)
SpecBlocks == InitBlocks /\ [][NextEncode]_vars

(***************************************************************************)
(* Properties of the field arithmetic, under SpecGF                        *)
(***************************************************************************)

\* x^8 + x^4 + x^3 + x^2 + 1
PrimitivePolynomial == 285

\* v doubled and reduced by the primitive polynomial
MulX(v) == IF 2 * v < 256 THEN 2 * v ELSE Xor(2 * v, PrimitivePolynomial)

\* The carry-less product of a and b: a shifted by every set bit of b, added.
RECURSIVE ClMul(_, _)
ClMul(a, b) ==
    IF b = 0 THEN 0
    ELSE Xor(IF b % 2 = 1 THEN a ELSE 0, ClMul(2 * a, b \div 2))

\* p reduced modulo the primitive polynomial, from bit `bit` down to bit 8.
RECURSIVE Reduce(_, _)
Reduce(p, bit) ==
    IF bit < 8 THEN p
    ELSE Reduce(IF (p \div (2 ^ bit)) % 2 = 1
                THEN Xor(p, PrimitivePolynomial * (2 ^ (bit - 8)))
                ELSE p,
                bit - 1)

ClMulMod(a, b) == Reduce(ClMul(a, b), 14)

\* C2: for every non-zero a, a times its inverse is 1, and exp[log[a]] = a.
C2_InverseAndLog ==
    gfA # gfZero =>
        /\ Exp(Log(gfA)) = gfA
        /\ gfRes.op = "inv" => (~gfRes.panic /\ gfMultiply(gfA, gfRes.val) = gfOne)

C2_Witness ==
    gfA = 87 /\ gfRes.op = "inv" /\ ~gfRes.panic /\ gfMultiply(87, gfRes.val) = 1

\* C3: the tables are those of GF(2^8) modulo x^8+x^4+x^3+x^2+1 with generator
\* 2: exp[0] = 1, exp[i+1] is exp[i] doubled and reduced for i in 0..254 (so
\* exp[255] = 1), log[exp[i]] = i for i in 0..254, and gfMultiply(a, b) is the
\* carry-less product of a and b reduced modulo the polynomial.
C3_FieldTables ==
    /\ Exp(0) = 1
    /\ Exp(255) = 1
    /\ gfA <= 254 => (Exp(gfA + 1) = MulX(Exp(gfA)) /\ Log(Exp(gfA)) = gfA)
    /\ gfRes.op = "mul" => gfRes.val = ClMulMod(gfA, gfB)

C3_Witness ==
    gfRes.op = "mul" /\ gfA = 254 /\ gfB = 255 /\ gfRes.val = ClMulMod(254, 255)
    /\ gfRes.val # 0

\* C4 as stated: gfMultiply(87, 19) = 182.
C4_Original ==
    (gfRes.op = "mul" /\ gfA = 87 /\ gfB = 19) => gfRes.val = 182

\* C4, amended: gfMultiply(87, 19) = 224, where gfMultiply(a, b) is 0 if a = 0
\* or b = 0 and exp[(log[a] + log[b]) mod 255] otherwise.
C4_Multiply ==
    gfRes.op = "mul" =>
        /\ gfRes.val = IF gfA = 0 \/ gfB = 0 THEN 0
                       ELSE Exp((Log(gfA) + Log(gfB)) % 255)
        /\ (gfA = 87 /\ gfB = 19) => gfRes.val = 224

C4_Witness ==
    gfRes.op = "mul" /\ gfA = 87 /\ gfB = 19 /\ gfRes.val = 224

\* C5: gfDivide(a, b) returns 0 without panicking whenever a = 0 (also for
\* b = 0), panics whenever a # 0 and b = 0, and otherwise returns
\* gfMultiply(a, gfInverse(b)), which times b gives a; gfInverse(0) panics and
\* gfInverse(a) = exp[255 - log[a]] for a # 0, so inv(2) = 142.
C5_DivideAndInverse ==
    /\ gfRes.op = "div" =>
        /\ gfA = 0 => (~gfRes.panic /\ gfRes.val = 0)
        /\ (gfA # 0 /\ gfB = 0) => gfRes.panic
        /\ (gfA # 0 /\ gfB # 0) =>
            /\ ~gfRes.panic
            /\ gfRes.val = gfMultiply(gfA, gfInverse(gfB).val)
            /\ gfMultiply(gfRes.val, gfB) = gfA
    /\ gfRes.op = "inv" =>
        /\ gfA = 0 => gfRes.panic
        /\ gfA # 0 => (~gfRes.panic /\ gfRes.val = Exp(255 - Log(gfA)))
        /\ gfA = 2 => gfRes.val = 142

C5_Witness ==
    gfRes.op = "div" /\ gfA = 0 /\ gfB = 0 /\ ~gfRes.panic /\ gfRes.val = 0

(***************************************************************************)
(* Properties of the Reed-Solomon encoder, under SpecRS                    *)
(***************************************************************************)

\* The bytes of a bit stream whose length is a multiple of 8.
BytesOf(bits) == [i \in 1..(Len(bits) \div 8) |-> ByteAt(bits, 8 * (i - 1))]

\* The polynomial whose coefficients are the bytes, the first the highest,
\* evaluated at x.
RECURSIVE Horner(_, _, _)
Horner(bytes, x, acc) ==
    IF bytes = <<>> THEN acc
    ELSE Horner(Tail(bytes), x, gfAdd(gfMultiply(acc, x), Head(bytes)))

\* C1: for a block of k bytes and numECBytes >= 2, Encode returns
\* 8 * (k + numECBytes) bits, the first 8 * k of them the data unchanged, whose
\* bytes as a polynomial (first byte highest) are zero at every alpha^i,
\* i < numECBytes, i.e. are divisible by the generator.
C1_EncodeCodeword ==
    (rsRes.done /\ rsNumEC >= 2) =>
        /\ ~rsRes.panic
        /\ Len(rsRes.val) = Len(rsData) + 8 * rsNumEC
        /\ SubSeq(rsRes.val, 1, Len(rsData)) = rsData
        /\ \A i \in 0..(rsNumEC - 1) : Horner(BytesOf(rsRes.val), Exp(i), 0) = 0

C1_Witness ==
    /\ rsRes.done /\ ~rsRes.panic
    /\ rsNumEC = 3
    /\ BytesOf(rsData) = <<87, 142>>
    /\ Len(rsRes.val) = 40
    /\ SubSeq(rsRes.val, 17, 40) # Repeat(24, 0)

(***************************************************************************)
(* Properties of QRCode                                                    *)
(***************************************************************************)

\* C6 (SpecMask): after encode has evaluated the eight masks on a fresh QRCode,
\* q.mask is the mask of least penalty, the smallest index among several, and
\* q.symbol is the symbol built with that mask.
C6_MinPenaltyMask ==
    calls = 1 =>
        /\ \A m \in Masks : pen[mask] <= pen[m]
        /\ \A m \in Masks : pen[m] = pen[mask] => mask <= m
        /\ symbol = buildRegularSymbol(version, mask, encodeBlocks(version, data),
                                       ~DisableBorder).s
        /\ numEmptyModules(symbol) = 0

C6_Witness ==
    calls = 1 /\ mask = 3 /\ pen[5] = pen[3] /\ pen[0] > pen[3] /\ symbol.mask = 3

\* C7 (Spec): the bitmap each Bitmap() or Image() produces reflects the
\* DisableBorder of the time of the call: side module_size + 8 with a
\* 4-module quiet zone when it is false, side module_size and no quiet zone
\* when it is true.
C7_BitmapReflectsBorder ==
    out.call \in {"Bitmap", "Image"} =>
        /\ out.bitmap.quietZoneSize = IF out.disableBorder THEN 0 ELSE 4
        /\ out.bitmap.size = symbolSize(version) + (IF out.disableBorder THEN 0 ELSE 8)

\* C10 (Spec): calls repeated without a change of options return the bitmap of
\* the first call and keep its q.mask, and q.data has exactly num_data_bits
\* bits after every call; no call panics.
C10_Idempotent ==
    /\ ~panicked
    /\ calls >= 1 => Len(data) = numDataBits(version)
    /\ (calls >= 1 /\ ~dirty) => (out.bitmap = first.bitmap /\ mask = first.mask)

C10_Witness ==
    /\ calls = 2 /\ ~dirty /\ first.set
    /\ out.call = "ToSmallString"
    /\ out.bitmap = first.bitmap
    /\ Len(data0) = 0 /\ Len(data) = 72

\* C9 (SpecPad): for data of L bits, 0 <= L <= num_data_bits, after the
\* terminator and the padding q.data has num_data_bits bits: the first L
\* unchanged, zeros from there to the first codeword boundary at or after the
\* terminator, then the bytes 0b11101100 and 0b00010001 in turn, the first
\* 0b11101100; addPadding does not panic.
C9_Padding ==
    LET L == Len(data0)
        N == numDataBits(version)
        T == IF N - L >= 4 THEN 4 ELSE N - L
        B == 8 * ((L + T + 7) \div 8)
    IN  /\ ~panicked
        /\ calls >= 1 =>
            /\ Len(data) = N
            /\ SubSeq(data, 1, L) = data0
            /\ \A i \in (L + 1)..B : data[i] = 0
            /\ \A j \in 0..(((N - B) \div 8) - 1) :
                ByteAt(data, B + 8 * j) = IF j % 2 = 0 THEN 236 ELSE 17

C9_Witness ==
    /\ calls = 1 /\ Len(data0) = 43 /\ numDataBits(version) = 72
    /\ SubSeq(data, 1, 43) = data0
    /\ SubSeq(BytesOf(data), 7, 9) = <<236, 17, 236>>

\* The blocks of a version, by index 1..B: the data codewords of block j, the
\* payload bytes before it, the error codewords of each block.
BlockCount(v) ==
    v.block[1].numBlocks + (IF Len(v.block) = 2 THEN v.block[2].numBlocks ELSE 0)

DataCodewordsOf(v, j) ==
    IF j <= v.block[1].numBlocks THEN v.block[1].numDataCodewords
    ELSE v.block[2].numDataCodewords

\* The (block, column) pairs that hold a data byte.
Cells(v) ==
    LET widest == IF Len(v.block) = 2
                     /\ v.block[2].numDataCodewords > v.block[1].numDataCodewords
                  THEN v.block[2].numDataCodewords
                  ELSE v.block[1].numDataCodewords
    IN  {c \in (1..BlockCount(v)) \X (0..(widest - 1)) : c[2] < DataCodewordsOf(v, c[1])}

PayloadOffset(v, j) == Cardinality({c \in Cells(v) : c[1] < j})

ErrorCodewordsOf(v) == v.block[1].numCodewords - v.block[1].numDataCodewords

\* The place, in bytes, of block j's data byte c in the interleaved stream:
\* after every byte of an earlier column, and every earlier block's byte of
\* this column.
DataPlace(v, j, c) ==
    Cardinality({x \in Cells(v) : x[2] < c \/ (x[2] = c /\ x[1] < j)})

\* Block j of the payload, Reed-Solomon encoded.
BlockCodeword(v, payload, j) ==
    Encode(Substr(payload, 8 * PayloadOffset(v, j),
                  8 * (PayloadOffset(v, j) + DataCodewordsOf(v, j))),
           ErrorCodewordsOf(v)).val

\* C8 (SpecBlocks): block j is the j-th consecutive slice of k_j payload bytes,
\* the slices covering the payload; the output is, column by column, each
\* block's data byte in block order (blocks with no byte in the column
\* skipped), then each block's error correction byte column by column, then
\* num_remainder_bits zero bits; every codeword appears once and the length is
\* 8 * (sum of n_j) + num_remainder_bits.
C8_Interleaving ==
    calls >= 1 =>
        LET v == version
            o == symbol.data
            nData == Cardinality(Cells(v))
            nBlocks == BlockCount(v)
            nEC == ErrorCodewordsOf(v)
        IN  /\ 8 * nData = Len(data)
            /\ Len(o) = 8 * (nData + nBlocks * nEC) + v.numRemainderBits
            /\ {DataPlace(v, c[1], c[2]) : c \in Cells(v)} = 0..(nData - 1)
            /\ \A c \in Cells(v) :
                ByteAt(o, 8 * DataPlace(v, c[1], c[2]))
                    = ByteAt(data, 8 * (PayloadOffset(v, c[1]) + c[2]))
            /\ \A j \in 1..nBlocks : \A e \in 0..(nEC - 1) :
                ByteAt(o, 8 * (nData + e * nBlocks + (j - 1)))
                    = ByteAt(BlockCodeword(v, data, j), 8 * (DataCodewordsOf(v, j) + e))
            /\ \A i \in 1..v.numRemainderBits :
                o[8 * (nData + nBlocks * nEC) + i] = 0

C8_Witness ==
    /\ calls = 1
    /\ Len(version.block) = 2
    /\ version.block[1].numBlocks = 2 /\ version.block[1].numDataCodewords = 15
    /\ version.block[2].numBlocks = 2 /\ version.block[2].numDataCodewords = 16
    /\ version.numRemainderBits = 7
    /\ Len(symbol.data) = 8 * 134 + 7
    /\ ByteAt(symbol.data, 8) = ByteAt(data, 8 * 15)
    /\ ByteAt(symbol.data, 8 * 61) = ByteAt(data, 8 * 61)

====
